---- MODULE Spec2Model ----
(***************************************************************************)
(* A model of app.py, the Streamlit "Analizador de Datos Excel".           *)
(*                                                                         *)
(* Streamlit re-executes the whole script on every user interaction, so    *)
(* each action below is one widget change followed by one complete run of  *)
(* the script (RunScript).  The state that survives between runs is the    *)
(* two directories on disk, the st.cache_data cache of load_excel, and the *)
(* widget values of the session.                                           *)
(*                                                                         *)
(* Values.  A text cell is a string and NaN is the missing text cell; a    *)
(* numeric cell is <<n>> and NaNum the missing one; a date cell as read    *)
(* from the sheet is the record [sep, a, b, c] of the text "a sep b sep c" *)
(* and a parsed date is [y, m, d].  A DataFrame is [cols, rows] with every *)
(* row a function on cols.                                                 *)
(***************************************************************************)
EXTENDS Integers, Sequences, FiniteSets, TLC

VARIABLES data_dir, upload_dir, cache, uploaded_file, selected_file,
          plot_type, view

vars == <<data_dir, upload_dir, cache, uploaded_file, selected_file,
          plot_type, view>>

\* ---------------------------------------------------------------- bounds

MaxEntradas == 2

MaxFamilias == 2

\* ---------------------------------------------------------------- values

None == [none |-> TRUE]

NaN == "NaN"

NaNum == <<>>

NaT == [y |-> 0, m |-> 0, d |-> 0]

EmptyCell == [sep |-> "", a |-> 0, b |-> 0, c |-> 0]

DateText(a, b, c) == [sep |-> "/", a |-> a, b |-> b, c |-> c]

IsoText(a, b, c) == [sep |-> "-", a |-> a, b |-> b, c |-> c]

RECURSIVE SumOver(_, _)
SumOver(f, S) ==
    IF S = {} THEN 0
    ELSE LET k == CHOOSE k \in S : TRUE IN f[k] + SumOver(f, S \ {k})

RECURSIVE FlattenSeq(_)
FlattenSeq(ss) == IF ss = <<>> THEN <<>> ELSE Head(ss) \o FlattenSeq(Tail(ss))

Indices(s) == 1..Len(s)

\* ---------------------------------------------------------------- load_excel

date_columns == <<"fecha_entrada_caja", "fecha_preparacion_caja">>

IsLeap(y) == (y % 4 = 0 /\ y % 100 # 0) \/ y % 400 = 0

DaysIn(m, y) ==
    IF m = 2 THEN (IF IsLeap(y) THEN 29 ELSE 28)
    ELSE IF m \in {4, 6, 9, 11} THEN 30 ELSE 31

\* %y: 00..68 are 2000..2068 and 69..99 are 1969..1999.
Century(yy) == IF yy < 69 THEN 2000 + yy ELSE 1900 + yy

\* Whether the text matches format='%d/%m/%y' (a missing cell always does).
MatchesFormat(cell) ==
    \/ cell = EmptyCell
    \/ /\ cell.sep = "/"
       /\ cell.c \in 0..99
       /\ cell.b \in 1..12
       /\ cell.a \in 1..DaysIn(cell.b, Century(cell.c))

\* pd.to_datetime(text, format='%d/%m/%y') on one cell that matches.
ToDatetime(cell) ==
    IF cell = EmptyCell THEN NaT
    ELSE [y |-> Century(cell.c), m |-> cell.b, d |-> cell.a]

ConvertRow(row, col) == [row EXCEPT ![col] = ToDatetime(row[col])]

ConvertColumn(df, col) ==
    [df EXCEPT !.rows = [i \in Indices(df.rows) |-> ConvertRow(df.rows[i], col)]]

ColumnMatches(df, col) ==
    \A i \in Indices(df.rows) : MatchesFormat(df.rows[i][col])

UnmatchedBlank(left, rcols) ==
    [c \in DOMAIN left \cup rcols |-> IF c \in DOMAIN left THEN left[c] ELSE ""]

\* The row of the joined table for one Entradas row without a partner.
Unmatched(left, rcols) ==
    [c \in DOMAIN left \cup rcols |-> IF c \in DOMAIN left THEN left[c] ELSE NaN]

Joined(left, right) ==
    [c \in DOMAIN left \cup DOMAIN right |->
        IF c \in DOMAIN left THEN left[c] ELSE right[c]]

\* The same join under how='inner': an Entradas row without a match is lost.
InnerRows(left, familias_df) ==
    LET hits == SelectSeq(familias_df.rows,
                          LAMBDA f : f["CODIGO"] = left["codigo"])
    IN  [j \in Indices(hits) |-> Joined(left, hits[j])]

\* The joined rows one Entradas row contributes under how='left': one per
\* Familias row with an equal key (a missing key equals a missing key), in
\* Familias order, or the row itself with missing Familias columns.
LeftRows(left, familias_df) ==
    LET hits == SelectSeq(familias_df.rows,
                          LAMBDA f : f["CODIGO"] = left["codigo"])
    IN  IF hits = <<>> THEN << Unmatched(left, familias_df.cols) >>
        ELSE [j \in Indices(hits) |-> Joined(left, hits[j])]

\* pd.merge(entradas_df, familias_df, left_on='codigo', right_on='CODIGO',
\*          how='left')
Merge(entradas_df, familias_df) ==
    [cols |-> entradas_df.cols \cup familias_df.cols,
     rows |-> FlattenSeq([i \in Indices(entradas_df.rows) |->
                            LeftRows(entradas_df.rows[i], familias_df)])]

Failed == [entradas_df |-> None, familias_df |-> None, merged_df |-> None]

SheetNames == {"Entradas", "Familias"}

RaisesFirstDateOnly(file) ==
    \/ ~file.readable
    \/ ~(SheetNames \subseteq DOMAIN file.sheets)
    \/ date_columns[1] \notin file.sheets["Entradas"].cols
    \/ date_columns[2] \notin file.sheets["Entradas"].cols
    \/ ~ColumnMatches(file.sheets["Entradas"], date_columns[1])
    \/ "codigo" \notin file.sheets["Entradas"].cols
    \/ "CODIGO" \notin file.sheets["Familias"].cols

\* What makes a statement of the try block raise.
Raises(file) ==
    \/ ~file.readable
    \/ ~(SheetNames \subseteq DOMAIN file.sheets)
    \/ \E i \in Indices(date_columns) :
          \/ date_columns[i] \notin file.sheets["Entradas"].cols
          \/ ~ColumnMatches(file.sheets["Entradas"], date_columns[i])
    \/ "codigo" \notin file.sheets["Entradas"].cols
    \/ "CODIGO" \notin file.sheets["Familias"].cols

\* The body of load_excel: the try block, and the handler's return.
LoadBody(file) ==
    IF Raises(file) THEN Failed
    ELSE LET entradas_df == ConvertColumn(ConvertColumn(file.sheets["Entradas"],
                                date_columns[1]), date_columns[2])
             familias_df == file.sheets["Familias"]
         IN  [entradas_df |-> entradas_df,
              familias_df |-> familias_df,
              merged_df   |-> Merge(entradas_df, familias_df)]

\* ---------------------------------------------------------------- columns

TextColumns == {"codigo", "CODIGO", "FAMILIA", "ORIGEN", "CALIDAD"}

\* The missing value of a column: what pandas' isna() is true of.
IsNA(col, v) ==
    IF col \in TextColumns THEN v = NaN
    ELSE IF col = "mes" \/ col = "valor" \/ col = "anio" THEN v = <<>>
    ELSE v = NaT

Digits4(n) == << n \div 1000, (n \div 100) % 10, (n \div 10) % 10, n % 10 >>

Digits2(n) == << n \div 10, n % 10 >>

\* .dt.strftime('%Y-%m'): the characters of "YYYY-MM" without the dash, so
\* that the order of two results is the order of their texts.
Strftime(date) == IF date = NaT THEN <<>> ELSE Digits4(date.y) \o Digits2(date.m)

Year(date) == IF date = NaT THEN NaNum ELSE << date.y >>

\* merged_df['mes'] = ...; merged_df['anio'] = ...
AddColumns(df) ==
    [cols |-> df.cols \cup {"mes", "anio"},
     rows |-> [i \in Indices(df.rows) |->
                 [c \in df.cols \cup {"mes", "anio"} |->
                     IF c = "mes" THEN Strftime(df.rows[i]["fecha_entrada_caja"])
                     ELSE IF c = "anio" THEN Year(df.rows[i]["fecha_entrada_caja"])
                     ELSE df.rows[i][c]]]]

\* ---------------------------------------------------------------- charts

PlotTypes ==
    << "Distribucion de Calidad por Mes",
       "Distribucion de Calidad por Origen",
       "Distribucion de Valores por Calidad",
       "Valor por Mes",
       "Distribucion de Calidad por Familia",
       "Valor Promedio por Origen y Calidad" >>

PlotTypeSet == {PlotTypes[i] : i \in Indices(PlotTypes)}

\* The columns each branch reads from merged_df.
Requires(plot) ==
    CASE plot = PlotTypes[1] -> {"mes", "CALIDAD"}
      [] plot = PlotTypes[2] -> {"ORIGEN", "CALIDAD"}
      [] plot = PlotTypes[3] -> {"CALIDAD", "valor"}
      [] plot = PlotTypes[4] -> {"mes", "valor"}
      [] plot = PlotTypes[5] -> {"FAMILIA", "CALIDAD"}
      [] plot = PlotTypes[6] -> {"ORIGEN", "CALIDAD", "valor"}

GroupedRowsKeepNA(df, keys) == Indices(df.rows)

\* The rows a groupby over `keys` keeps: dropna=True drops a row with a
\* missing value in any key.
GroupedRows(df, keys) ==
    {i \in Indices(df.rows) : \A k \in keys : ~IsNA(k, df.rows[i][k])}

\* df.groupby([key, 'CALIDAD']).size().unstack(fill_value=0), then
\* .div(.sum(axis=1), axis=0): one row per key value, one column per CALIDAD
\* value, each cell the fraction num/den.
Proportions(df, key) ==
    LET kept    == GroupedRows(df, {key, "CALIDAD"})
        index   == {df.rows[i][key] : i \in kept}
        columns == {df.rows[i]["CALIDAD"] : i \in kept}
        size    == [k \in index |-> [q \in columns |->
                      Cardinality({i \in kept : /\ df.rows[i][key] = k
                                                /\ df.rows[i]["CALIDAD"] = q})]]
        total   == [k \in index |-> SumOver(size[k], columns)]
    IN  [kind    |-> "bar",
         index   |-> index,
         columns |-> columns,
         cell    |-> [k \in index |-> [q \in columns |->
                        [num |-> size[k][q], den |-> total[k]]]]]

NaNMean == [num |-> 0, den |-> 0]

\* The non-missing valor cells of the rows in I, as a function on them.
Valid(df, I) == {i \in I : ~IsNA("valor", df.rows[i]["valor"])}

\* Series.sum(): missing cells are skipped.
Sum(df, I) == SumOver([i \in Valid(df, I) |-> df.rows[i]["valor"][1]], Valid(df, I))

MeanOverAllRows(df, I) ==
    IF I = {} THEN NaNMean ELSE [num |-> Sum(df, I), den |-> Cardinality(I)]

\* Series.mean(): missing cells are skipped, and the mean of none is NaN.
Mean(df, I) ==
    IF Valid(df, I) = {} THEN NaNMean
    ELSE [num |-> Sum(df, I), den |-> Cardinality(Valid(df, I))]

RECURSIVE LexLess(_, _)
LexLess(s, t) ==
    IF t = <<>> THEN FALSE
    ELSE IF s = <<>> THEN TRUE
    ELSE IF Head(s) # Head(t) THEN Head(s) < Head(t)
    ELSE LexLess(Tail(s), Tail(t))

\* groupby sorts its keys (sort=True): the texts in ascending order.
RECURSIVE SortedKeys(_)
SortedKeys(S) ==
    IF S = {} THEN <<>>
    ELSE LET least == CHOOSE k \in S : \A o \in S \ {k} : LexLess(k, o)
         IN  << least >> \o SortedKeys(S \ {least})

\* merged_df.groupby('mes')['valor'].agg(['mean', 'sum']).reset_index()
ValueByMonth(df) ==
    LET kept == GroupedRows(df, {"mes"})
        keys == SortedKeys({df.rows[i]["mes"] : i \in kept})
        rowsOf(k) == {i \in kept : df.rows[i]["mes"] = k}
    IN  [kind |-> "scatter+bar",
         rows |-> [n \in Indices(keys) |->
                     [mes  |-> keys[n],
                      mean |-> Mean(df, rowsOf(keys[n])),
                      sum  |-> Sum(df, rowsOf(keys[n]))]]]

\* merged_df.groupby(['ORIGEN', 'CALIDAD'])['valor'].mean().reset_index()
AverageValue(df) ==
    LET kept   == GroupedRows(df, {"ORIGEN", "CALIDAD"})
        groups == {<< df.rows[i]["ORIGEN"], df.rows[i]["CALIDAD"] >> : i \in kept}
        rowsOf(g) == {i \in kept : /\ df.rows[i]["ORIGEN"] = g[1]
                                   /\ df.rows[i]["CALIDAD"] = g[2]}
    IN  [kind   |-> "grouped bar",
         groups |-> groups,
         valor  |-> [g \in groups |-> Mean(df, rowsOf(g))]]

\* px.box(merged_df, x='CALIDAD', y='valor'): the figure carries the two
\* columns; the quartiles are drawn from them by the chart library.
BoxPoints(df) ==
    [kind |-> "box",
     x    |-> [i \in Indices(df.rows) |-> df.rows[i]["CALIDAD"]],
     y    |-> [i \in Indices(df.rows) |-> df.rows[i]["valor"]]]

\* The if/elif chain over plot_type.
Figure(df, plot) ==
    CASE plot = PlotTypes[1] -> Proportions(df, "mes")
      [] plot = PlotTypes[2] -> Proportions(df, "ORIGEN")
      [] plot = PlotTypes[3] -> BoxPoints(df)
      [] plot = PlotTypes[4] -> ValueByMonth(df)
      [] plot = PlotTypes[5] -> Proportions(df, "FAMILIA")
      [] plot = PlotTypes[6] -> AverageValue(df)

AfterPlotDropNA(df, plot) ==
    [df EXCEPT !.rows = SelectSeq(df.rows, LAMBDA r : r["CODIGO"] # NaN)]

\* What the charting branch leaves in merged_df: groupby, unstack, div, agg
\* and the px/go calls build new objects and assign no column.
AfterPlot(df, plot) == df

\* ---------------------------------------------------------------- CSV export

ColumnOrder ==
    << "codigo", "fecha_entrada_caja", "fecha_preparacion_caja", "valor",
       "CODIGO", "FAMILIA", "ORIGEN", "CALIDAD", "mes", "anio" >>

Pad2(n) == IF n < 10 THEN "0" \o ToString(n) ELSE ToString(n)

HasNA(df, col) == \E i \in Indices(df.rows) : IsNA(col, df.rows[i][col])

\* A number as to_csv writes it: a column with a missing cell is float64.
NumberText(df, col, v) ==
    IF v = <<>> THEN ""
    ELSE IF HasNA(df, col) THEN ToString(v[1]) \o ".0" ELSE ToString(v[1])

MesText(v) ==
    IF v = <<>> THEN ""
    ELSE ToString(v[1]) \o ToString(v[2]) \o ToString(v[3]) \o ToString(v[4])
         \o "-" \o ToString(v[5]) \o ToString(v[6])

DateCellText(v) ==
    IF v = NaT THEN ""
    ELSE ToString(v.y) \o "-" \o Pad2(v.m) \o "-" \o Pad2(v.d)

CellText(df, col, v) ==
    IF col \in TextColumns THEN (IF v = NaN THEN "" ELSE v)
    ELSE IF col = "mes" THEN MesText(v)
    ELSE IF col = "valor" \/ col = "anio" THEN NumberText(df, col, v)
    ELSE DateCellText(v)

\* merged_df.to_csv(index=False): the header, then one line per row.
ToCsv(df) ==
    LET header == SelectSeq(ColumnOrder, LAMBDA c : c \in df.cols)
    IN  [header |-> header,
         lines  |-> [i \in Indices(df.rows) |->
                       [n \in Indices(header) |->
                           CellText(df, header[n], df.rows[i][header[n]])]]]

\* ---------------------------------------------------------------- files

UPLOAD_DIR == "uploaded_files"

DATA_DIR == "data"

FileName(stem, ext) == [stem |-> stem, ext |-> ext]

\* default_file = DATA_DIR / "data.xlsx"
default_file == [dir |-> DATA_DIR, name |-> FileName("data", "xlsx")]

\* UPLOAD_DIR / name
UploadPath(name) == [dir |-> UPLOAD_DIR, name |-> name]

NoFiles == [f \in {} |-> None]

\* What open(file_path, "wb") leaves when the write after it fails.
Truncated == [readable |-> FALSE, sheets |-> [n \in {} |-> None]]

SaveOutcomes == {"saved", "open fails", "write fails"}

\* save_uploaded_file: the directory afterwards.
SavedDir(dir, uploaded, outcome) ==
    IF outcome = "open fails" THEN dir
    ELSE [f \in DOMAIN dir \cup {uploaded.name} |->
            IF f = uploaded.name
            THEN (IF outcome = "saved" THEN uploaded.content ELSE Truncated)
            ELSE dir[f]]

\* previous_files: [f for f in os.listdir(UPLOAD_DIR) if f.endswith('.xlsx')]
PreviousFiles(dir) == {f \in DOMAIN dir : f.ext = "xlsx"}

\* ---------------------------------------------------------------- the cache

CacheReadStoredObject(stored) == [value |-> stored, shared |-> TRUE]

\* What a call hands back for a stored entry: st.cache_data stores the
\* pickled return value and unpickles a fresh copy for every caller.
CacheRead(stored) == [value |-> stored, shared |-> FALSE]

\* @st.cache_data load_excel(file_path): the entry for the path if there is
\* one, else the body's return value, stored under the path.
load_excel(c, file_path, dir) ==
    IF file_path \in DOMAIN c
    THEN [got |-> CacheRead(c[file_path]), cache |-> c, path |-> file_path]
    ELSE LET value == LoadBody(dir[file_path.name])
         IN  [got   |-> CacheRead(value),
              cache |-> [q \in DOMAIN c \cup {file_path} |->
                           IF q = file_path THEN value ELSE c[q]],
              path  |-> file_path]

RebindUnlessFailed(current, loaded) ==
    IF loaded.got.value = Failed THEN [current EXCEPT !.cache = loaded.cache]
    ELSE loaded

\* entradas_df, familias_df, merged_df = load_excel(...): the three names
\* are rebound to what the call returned.
Rebind(current, loaded) == loaded

\* ---------------------------------------------------------------- the script

NoSelection == FileName("", "")

NoPath == [dir |-> "", name |-> NoSelection]

\* Before any load: entradas_df, familias_df, merged_df = None, None, None
NothingLoaded == [got |-> CacheRead(Failed), cache |-> NoFiles, path |-> NoPath]

FreshView ==
    [phase          |-> "fresh",
     previous_files |-> {},
     saved          |-> FALSE,
     source         |-> NoPath,
     returned       |-> Failed,
     merged_df      |-> None,
     chart          |-> None,
     csv            |-> None,
     export_reached |-> FALSE]

\* Lines 108..222 on the joined table with its two new columns: the selected
\* chart and the export section.  A branch that reads a column the table
\* lacks raises, and the run ends there.
Analyse(df, plot, clicked) ==
    IF Requires(plot) \subseteq df.cols
    THEN [phase          |-> "shown",
          merged_df      |-> AfterPlot(df, plot),
          chart          |-> Figure(df, plot),
          csv            |-> IF clicked THEN ToCsv(AfterPlot(df, plot)) ELSE None,
          export_reached |-> TRUE]
    ELSE [phase          |-> "exception",
          merged_df      |-> df,
          chart          |-> None,
          csv            |-> None,
          export_reached |-> FALSE]

\* else: st.info("Por favor, suba un archivo Excel ...")
NoData ==
    [phase |-> "nodata", merged_df |-> None, chart |-> None, csv |-> None,
     export_reached |-> FALSE]

Complete(triple) ==
    /\ triple.entradas_df # None
    /\ triple.familias_df # None
    /\ triple.merged_df # None

\* Lines 87..224: the page for the triple the run ended up with.
Render(triple, plot, clicked) ==
    IF Complete(triple)
    THEN Analyse(AddColumns(triple.merged_df), plot, clicked)
    ELSE NoData

\* Lines 59..65: the default file, if there is one.
LoadDefault(dd, c) ==
    IF default_file.name \in DOMAIN dd
    THEN load_excel(c, default_file, dd)
    ELSE [NothingLoaded EXCEPT !.cache = c]

\* Lines 71..77: the selected one of the files uploaded before, if any.
LoadSelected(current, ud, selected) ==
    IF PreviousFiles(ud) # {}
    THEN Rebind(current, load_excel(current.cache, UploadPath(selected), ud))
    ELSE current

\* Lines 82..85: the file in the uploader, once it is saved.
LoadUploaded(current, ud, up, outcome) ==
    IF up # None /\ outcome = "saved"
    THEN Rebind(current, load_excel(current.cache, UploadPath(up.name), ud))
    ELSE current

\* The cache after the run: only an object shared with the cache would carry
\* the run's column assignments into it.
CacheAfter(loaded, shown) ==
    IF loaded.got.shared /\ shown.merged_df # None /\ loaded.path \in DOMAIN loaded.cache
    THEN [loaded.cache EXCEPT ![loaded.path].merged_df = shown.merged_df]
    ELSE loaded.cache

\* ---------------------------------------------------------------- actions

\* The names os.listdir may return first, where the selectbox falls back to
\* the first option.
FirstListed(options, shown_before, want) ==
    IF options = {} THEN {NoSelection}
    ELSE IF options = shown_before /\ want \in options THEN {want}
    ELSE options

\* One interaction: one execution of app.py from top to bottom.
\*   up   : the file uploader's value      want    : the file selectbox's
\*   plot : the chart selectbox's value    clicked : the download button
\*   outcome, first : what the file system does in this run
\* A widget that a run does not reach loses its value: the chart selectbox
\* starts again from its first option after a run without data.
Interaction(up, want, plot, clicked) ==
    \E outcome \in (IF up = None THEN {"saved"} ELSE SaveOutcomes),
       first \in FirstListed(PreviousFiles(upload_dir), view.previous_files, want) :
    \E default \in {LoadDefault(data_dir, cache)} :
    \E chosen \in {LoadSelected(default, upload_dir, first)} :
    \E saved_dir \in {IF up # None THEN SavedDir(upload_dir, up, outcome) ELSE upload_dir} :
    \E loaded \in {LoadUploaded(chosen, saved_dir, up, outcome)} :
    \E shown \in {Render(loaded.got.value, plot, clicked)} :
        /\ upload_dir' = saved_dir
        /\ cache' = CacheAfter(loaded, shown)
        /\ uploaded_file' = up
        /\ selected_file' = first
        /\ plot_type' = (IF shown.phase = "nodata" THEN PlotTypes[1] ELSE plot)
        /\ view' = [phase          |-> shown.phase,
                    previous_files |-> PreviousFiles(upload_dir),
                    saved          |-> (up # None /\ outcome = "saved"),
                    source         |-> loaded.path,
                    returned       |-> loaded.got.value,
                    merged_df      |-> shown.merged_df,
                    chart          |-> shown.chart,
                    csv            |-> shown.csv,
                    export_reached |-> shown.export_reached]
        /\ UNCHANGED data_dir

\* The browser opens the page: the first run of a session.
OpenPage ==
    /\ view.phase = "fresh"
    /\ Interaction(uploaded_file, selected_file, plot_type, FALSE)

\* st.sidebar.file_uploader receives a file.
Upload(name, content) ==
    /\ view.phase # "fresh"
    /\ Interaction([name |-> name, content |-> content], selected_file, plot_type, FALSE)

\* The user removes the file from the uploader.
ClearUpload ==
    /\ view.phase # "fresh"
    /\ uploaded_file # None
    /\ Interaction(None, selected_file, plot_type, FALSE)

\* The user picks one of the listed files.
SelectFile(f) ==
    /\ view.phase # "fresh"
    /\ f \in view.previous_files
    /\ Interaction(uploaded_file, f, plot_type, FALSE)

\* The user picks a chart; the selectbox is on the page once a triple was
\* complete.
SelectPlot(plot) ==
    /\ view.phase \in {"shown", "exception"}
    /\ Interaction(uploaded_file, selected_file, plot, FALSE)

\* The user presses "Descargar Datos Combinados como CSV".
ClickDownload ==
    /\ view.phase = "shown"
    /\ Interaction(uploaded_file, selected_file, plot_type, TRUE)

\* The server process restarts: the files stay, the cache and the session go.
Restart ==
    /\ view.phase # "fresh"
    /\ cache' = NoFiles
    /\ uploaded_file' = None
    /\ selected_file' = NoSelection
    /\ plot_type' = PlotTypes[1]
    /\ view' = FreshView
    /\ UNCHANGED <<data_dir, upload_dir>>

\* ---------------------------------------------------------------- inputs

EntradasCols == {"codigo", "fecha_entrada_caja", "fecha_preparacion_caja", "valor"}

FamiliasCols == {"CODIGO", "FAMILIA", "ORIGEN", "CALIDAD"}

Entrada(codigo, fecha, prep, valor) ==
    [c \in EntradasCols |->
        IF c = "codigo" THEN codigo
        ELSE IF c = "fecha_entrada_caja" THEN fecha
        ELSE IF c = "fecha_preparacion_caja" THEN prep
        ELSE valor]

Familia(codigo, familia, origen, calidad) ==
    [c \in FamiliasCols |->
        IF c = "CODIGO" THEN codigo
        ELSE IF c = "FAMILIA" THEN familia
        ELSE IF c = "ORIGEN" THEN origen
        ELSE calidad]

Workbook(entradas, familias) ==
    [readable |-> TRUE,
     sheets   |-> [n \in SheetNames |->
                     IF n = "Entradas" THEN [cols |-> EntradasCols, rows |-> entradas]
                     ELSE [cols |-> FamiliasCols, rows |-> familias]]]

\* A sheet without one of its columns.
DropColumn(df, col) ==
    [cols |-> df.cols \ {col},
     rows |-> [i \in Indices(df.rows) |-> [c \in df.cols \ {col} |-> df.rows[i][c]]]]

WithoutColumn(file, sheet, col) ==
    [file EXCEPT !.sheets[sheet] = DropColumn(@, col)]

WithoutSheet(file, sheet) ==
    [file EXCEPT !.sheets = [n \in SheetNames \ {sheet} |-> file.sheets[n]]]

Jan24 == DateText(1, 1, 24)

Mar24 == DateText(5, 3, 24)

Oct99 == DateText(1, 10, 99)

\* The rows the generated Entradas sheets are made of: two codes, two months
\* of different years, a missing valor, a missing codigo with a missing date,
\* and a date in another format.
EntradaRows ==
    { Entrada("A1", Jan24, Jan24, <<100>>),
      Entrada("A2", Jan24, Jan24, <<200>>),
      Entrada("A2", Oct99, Jan24, <<100>>),
      Entrada("A1", Jan24, Jan24, NaNum),
      Entrada(NaN, EmptyCell, EmptyCell, <<100>>),
      Entrada("A1", IsoText(2024, 3, 5), Jan24, <<100>>) }

\* The rows the generated Familias sheets are made of: a repeated CODIGO, a
\* missing CALIDAD, and a missing CODIGO with missing FAMILIA and ORIGEN.
FamiliaRows ==
    { Familia("A1", "F1", "O1", "Alta"),
      Familia("A2", "F2", "O2", "Baja"),
      Familia("A1", "F1", "O1", "Baja"),
      Familia("A2", "F2", "O2", NaN),
      Familia(NaN, NaN, NaN, "Alta") }

SeqsUpTo(S, n) == UNION {[1..k -> S] : k \in 0..n}

GeneratedFiles ==
    {Workbook(e, f) : e \in SeqsUpTo(EntradaRows, MaxEntradas),
                      f \in SeqsUpTo(FamiliaRows, MaxFamilias)}

\* The workbook of the documented example, and variations of it.
FileA ==
    Workbook(<< Entrada("A1", Jan24, Jan24, <<100>>),
                Entrada("A2", Jan24, Jan24, <<200>>) >>,
             << Familia("A1", "F1", "O1", "Alta"),
                Familia("A2", "F2", "O2", "Baja") >>)

FileB ==
    Workbook(<< Entrada("A1", Mar24, Jan24, <<200>>),
                Entrada("Z9", Mar24, Jan24, <<100>>) >>,
             << Familia("A1", "F1", "O1", "Baja") >>)

BadPrepDate ==
    Workbook(<< Entrada("A1", Jan24, Jan24, <<100>>),
                Entrada("A2", Jan24, DateText(31, 2, 24), <<200>>) >>,
             << Familia("A1", "F1", "O1", "Alta") >>)

NoCalidad == WithoutColumn(FileA, "Familias", "CALIDAD")

DamagedFiles ==
    { Truncated,
      BadPrepDate,
      WithoutSheet(FileA, "Entradas"),
      WithoutSheet(FileA, "Familias"),
      WithoutColumn(FileA, "Entradas", "codigo"),
      WithoutColumn(FileA, "Familias", "CODIGO"),
      WithoutColumn(FileA, "Entradas", "fecha_entrada_caja"),
      WithoutColumn(FileA, "Entradas", "fecha_preparacion_caja") }

IncompleteFiles ==
    { NoCalidad,
      WithoutColumn(FileA, "Familias", "ORIGEN"),
      WithoutColumn(FileA, "Familias", "FAMILIA"),
      WithoutColumn(FileA, "Entradas", "valor") }

UploadNames == {FileName("a", "xlsx"), FileName("b", "xlsx")}

UploadContents == {FileA, FileB, BadPrepDate}

DefaultContents == {FileA}

\* The charts selected in the specification with uploads.
UploadPlots == {PlotTypes[1], PlotTypes[4]}

OneFile(name, content) == [f \in {name} |-> content]

\* ---------------------------------------------------------------- specifications

SessionStart ==
    /\ cache = NoFiles
    /\ uploaded_file = None
    /\ selected_file = NoSelection
    /\ plot_type = PlotTypes[1]
    /\ view = FreshView

\* The application with its uploads: data/ holds the default workbook or
\* nothing, uploaded_files/ holds a file that is no workbook.
Init ==
    /\ data_dir \in {NoFiles} \cup {OneFile(default_file.name, c) : c \in DefaultContents}
    /\ upload_dir = OneFile(FileName("notes", "txt"), Truncated)
    /\ SessionStart

Next ==
    \/ OpenPage
    \/ \E name \in UploadNames, content \in UploadContents : Upload(name, content)
    \/ ClearUpload
    \/ \E f \in UploadNames : SelectFile(f)
    \/ \E plot \in UploadPlots : SelectPlot(plot)
    \/ ClickDownload
    \/ Restart

Spec == Init /\ [][Next]_vars

\* The loader and the charts over every generated workbook, placed as the
\* default file: no upload takes part.
InitData ==
    /\ data_dir \in {OneFile(default_file.name, c) :
                        c \in GeneratedFiles \cup DamagedFiles \cup IncompleteFiles}
    /\ upload_dir = NoFiles
    /\ SessionStart

NextData ==
    \/ OpenPage
    \/ \E plot \in PlotTypeSet : SelectPlot(plot)
    \/ ClickDownload

SpecData == InitData /\ [][NextData]_vars

\* ---------------------------------------------------------------- properties

Ran == view.phase # "fresh"

Shown == view.phase = "shown"

\* The workbook the loader reads under SpecData.
InputFile == data_dir[default_file.name]

Rows(df) == Indices(df.rows)

Restrict(row, cols) == [c \in cols |-> row[c]]

\* How many Familias rows carry the codigo of `row`.
Matches(row, familias_df) ==
    Cardinality({j \in Rows(familias_df) : familias_df.rows[j]["CODIGO"] = row["codigo"]})

UniqueCodigo(familias_df) ==
    \A i, j \in Rows(familias_df) :
        i # j => familias_df.rows[i]["CODIGO"] # familias_df.rows[j]["CODIGO"]

AtLeastOne(n) == IF n = 0 THEN 1 ELSE n

EveryEntradaOnce(triple) ==
    /\ Len(triple.merged_df.rows) = Len(triple.entradas_df.rows)
    /\ \A i \in Rows(triple.entradas_df) :
          Restrict(triple.merged_df.rows[i], triple.entradas_df.cols)
              = triple.entradas_df.rows[i]

\* C1 as claimed: whenever load_excel succeeds, the joined table has exactly
\* one row per Entradas row, for every Familias table.
C1_EveryEntradaOnceAlways ==
    (Ran /\ Complete(view.returned)) => EveryEntradaOnce(view.returned)

\* C1 as amended: whenever load_excel succeeds, an Entradas row appears in the
\* joined table once per Familias row with its codigo and once when there is
\* none; so with no CODIGO repeated in Familias the joined table has exactly
\* one row per Entradas row, matched or not.
C1_EveryEntradaOncePerMatch ==
    (Ran /\ Complete(view.returned)) =>
        LET t == view.returned
        IN  /\ Len(t.merged_df.rows)
                 = SumOver([i \in Rows(t.entradas_df) |->
                              AtLeastOne(Matches(t.entradas_df.rows[i], t.familias_df))],
                           Rows(t.entradas_df))
            /\ UniqueCodigo(t.familias_df) => EveryEntradaOnce(t)

C1_Witness ==
    /\ Ran
    /\ Complete(view.returned)
    /\ UniqueCodigo(view.returned.familias_df)
    /\ Len(view.returned.familias_df.rows) = 2
    /\ \E i, j \in Rows(view.returned.entradas_df) :
          /\ Matches(view.returned.entradas_df.rows[i], view.returned.familias_df) = 0
          /\ Matches(view.returned.entradas_df.rows[j], view.returned.familias_df) = 1

ProportionModes == {PlotTypes[1], PlotTypes[2], PlotTypes[5]}

KeyOf(plot) ==
    IF plot = PlotTypes[1] THEN "mes"
    ELSE IF plot = PlotTypes[2] THEN "ORIGEN" ELSE "FAMILIA"

\* The rows a proportion chart counted, over all its cells.
TotalCount(chart) ==
    SumOver([k \in chart.index |->
               SumOver([q \in chart.columns |-> chart.cell[k][q].num], chart.columns)],
            chart.index)

UnmatchedRows(df, familias_df) == {i \in Rows(df) : Matches(df.rows[i], familias_df) = 0}

CsvCell(csv, i, col) ==
    csv.lines[i][CHOOSE n \in Indices(csv.header) : csv.header[n] = col]

\* C2: a row whose codigo is no CODIGO of Familias has missing FAMILIA, ORIGEN
\* and CALIDAD; no group of a quality-proportion chart counts it; the CSV
\* export has its line.
C2_UnmatchedRow ==
    Shown =>
        LET df == view.merged_df
            unmatched == UnmatchedRows(df, view.returned.familias_df)
        IN  /\ \A i \in unmatched :
                  \A c \in {"FAMILIA", "ORIGEN", "CALIDAD"} \cap df.cols :
                      df.rows[i][c] = NaN
            /\ plot_type \in ProportionModes =>
                  TotalCount(view.chart) <= Len(df.rows) - Cardinality(unmatched)
            /\ view.csv # None =>
                  /\ Len(view.csv.lines) = Len(df.rows)
                  /\ \A i \in unmatched :
                        /\ CsvCell(view.csv, i, "codigo")
                              = (IF df.rows[i]["codigo"] = NaN THEN ""
                                 ELSE df.rows[i]["codigo"])
                        /\ "CALIDAD" \in df.cols => CsvCell(view.csv, i, "CALIDAD") = ""

C2_Witness ==
    /\ Shown
    /\ plot_type \in ProportionModes
    /\ view.csv # None
    /\ UnmatchedRows(view.merged_df, view.returned.familias_df) # {}
    /\ TotalCount(view.chart) > 0

MissingKey(key) == IF key = "mes" THEN <<>> ELSE NaN

\* The rows of df with this key value and a CALIDAD.
WithQuality(df, key, k) ==
    {i \in Rows(df) : df.rows[i][key] = k /\ df.rows[i]["CALIDAD"] # NaN}

KeysWithQuality(df, key) ==
    {df.rows[i][key] : i \in {j \in Rows(df) : /\ df.rows[j][key] # MissingKey(key)
                                                /\ df.rows[j]["CALIDAD"] # NaN}}

\* C3: a proportion chart has one row per key value that has a row with a
\* CALIDAD, and no other; each cell is the count of the key's rows with that
\* CALIDAD over the count of the key's rows with any CALIDAD, so it lies in
\* [0,1] and each row's cells sum to 1.
C3_Proportions ==
    (Shown /\ plot_type \in ProportionModes) =>
        LET df == view.merged_df
            key == KeyOf(plot_type)
            chart == view.chart
        IN  /\ chart.index = KeysWithQuality(df, key)
            /\ \A k \in chart.index :
                  /\ Cardinality(WithQuality(df, key, k)) >= 1
                  /\ \A q \in chart.columns :
                        /\ chart.cell[k][q].den = Cardinality(WithQuality(df, key, k))
                        /\ chart.cell[k][q].num
                              = Cardinality({i \in WithQuality(df, key, k) :
                                                df.rows[i]["CALIDAD"] = q})
                        /\ 0 <= chart.cell[k][q].num
                        /\ chart.cell[k][q].num <= chart.cell[k][q].den
                  /\ SumOver([q \in chart.columns |-> chart.cell[k][q].num], chart.columns)
                        = Cardinality(WithQuality(df, key, k))

C3_Witness ==
    /\ Shown
    /\ plot_type \in ProportionModes
    /\ view.chart.index # {}
    /\ \E i \in Rows(view.merged_df) :
          /\ view.merged_df.rows[i][KeyOf(plot_type)] # MissingKey(KeyOf(plot_type))
          /\ view.merged_df.rows[i][KeyOf(plot_type)] \notin view.chart.index

\* A date text that is a day, a month and a two-digit year of the calendar,
\* separated by "/".
IsDDMMYY(cell) ==
    /\ cell.sep = "/"
    /\ cell.c \in 0..99
    /\ cell.b \in 1..12
    /\ cell.a \in 1..31
    /\ cell.b \in {4, 6, 9, 11} => cell.a <= 30
    /\ cell.b = 2 => cell.a <= (IF cell.c % 4 = 0 THEN 29 ELSE 28)

BadDateRows(df, col) ==
    {i \in Rows(df) : df.rows[i][col] # EmptyCell /\ ~IsDDMMYY(df.rows[i][col])}

Damaged(file) ==
    \/ ~file.readable
    \/ "Entradas" \notin DOMAIN file.sheets
    \/ "Familias" \notin DOMAIN file.sheets
    \/ ~({"codigo", "fecha_entrada_caja", "fecha_preparacion_caja"}
            \subseteq file.sheets["Entradas"].cols)
    \/ "CODIGO" \notin file.sheets["Familias"].cols
    \/ BadDateRows(file.sheets["Entradas"], "fecha_entrada_caja") # {}
    \/ BadDateRows(file.sheets["Entradas"], "fecha_preparacion_caja") # {}

\* C4: load_excel returns three tables or three None, never a mixture; a
\* workbook that is unreadable, lacks a sheet, a key column or a date column,
\* or has one row with a date not in DD/MM/YY, gives three None and a run
\* without data; the only exception a run ends with is the charts'.
C4_LoadAllOrNothing ==
    Ran =>
        /\ view.returned = Failed \/ Complete(view.returned)
        /\ Damaged(InputFile) => (view.returned = Failed /\ view.phase = "nodata")
        /\ view.phase = "exception" => Complete(view.returned)

C4_Witness ==
    /\ Ran
    /\ view.returned = Failed
    /\ InputFile.readable
    /\ SheetNames \subseteq DOMAIN InputFile.sheets
    /\ EntradasCols \subseteq InputFile.sheets["Entradas"].cols
    /\ Len(InputFile.sheets["Entradas"].rows) = 2
    /\ Cardinality(BadDateRows(InputFile.sheets["Entradas"], "fecha_entrada_caja")
                   \cup BadDateRows(InputFile.sheets["Entradas"], "fecha_preparacion_caja"))
          = 1

\* C5 as claimed: when the loaded table lacks a column the selected chart
\* reads, no exception ends the run and the export section is reached.
C5_MissingColumnHandled ==
    (Ran /\ Complete(view.returned)
         /\ ~(Requires(plot_type) \subseteq view.returned.merged_df.cols \cup {"mes", "anio"}))
        => (view.phase # "exception" /\ view.export_reached)

\* C6: an entry of the cache never changes while it is there, whatever runs
\* in between, the pass that adds mes and anio included; a call for a path
\* that has an entry returns that entry, and a call that makes an entry
\* returns what it stores.
C6_CachedLoadIdentical ==
    [][ /\ \A p \in DOMAIN cache \cap DOMAIN cache' : cache'[p] = cache[p]
        /\ view'.source \in DOMAIN cache => view'.returned = cache[view'.source]
        /\ view'.source \in DOMAIN cache' => view'.returned = cache'[view'.source]
      ]_vars

C6_Witness ==
    /\ Shown
    /\ plot_type # PlotTypes[1]
    /\ view.source \in DOMAIN cache
    /\ "mes" \in view.merged_df.cols
    /\ "mes" \notin cache[view.source].merged_df.cols
    /\ view.returned = cache[view.source]

MonthOf(date) == << date.y, date.m >>

\* The year and month a chart row's "YYYY-MM" text spells.
MonthSpelled(mes) ==
    << mes[1] * 1000 + mes[2] * 100 + mes[3] * 10 + mes[4], mes[5] * 10 + mes[6] >>

Earlier(a, b) == a[1] < b[1] \/ (a[1] = b[1] /\ a[2] < b[2])

RowsOfMonth(df, month) ==
    {i \in Rows(df) : /\ df.rows[i]["fecha_entrada_caja"] # NaT
                      /\ MonthOf(df.rows[i]["fecha_entrada_caja"]) = month}

WithValor(df, I) == {i \in I : df.rows[i]["valor"] # NaNum}

SumOfValor(df, I) ==
    SumOver([i \in WithValor(df, I) |-> df.rows[i]["valor"][1]], WithValor(df, I))

\* One entry per month that has a row, in chronological order, each with the
\* sum of valor over the month's rows.
MonthsAndSums(chart, df) ==
    /\ \A n \in 1..(Len(chart.rows) - 1) :
          Earlier(MonthSpelled(chart.rows[n].mes), MonthSpelled(chart.rows[n + 1].mes))
    /\ {MonthSpelled(chart.rows[n].mes) : n \in Indices(chart.rows)}
          = {MonthOf(df.rows[i]["fecha_entrada_caja"]) :
                i \in {j \in Rows(df) : df.rows[j]["fecha_entrada_caja"] # NaT}}
    /\ \A n \in Indices(chart.rows) :
          chart.rows[n].sum = SumOfValor(df, RowsOfMonth(df, MonthSpelled(chart.rows[n].mes)))

\* C7 as claimed: Value-by-Month has one entry per month with a row, in
\* chronological order, with the sum of valor over the month's rows and, as
\* mean, that sum divided by the number of the month's rows.
C7_MeanOverAllRowsOfMonth ==
    (Shown /\ plot_type = PlotTypes[4]) =>
        /\ MonthsAndSums(view.chart, view.merged_df)
        /\ \A n \in Indices(view.chart.rows) :
              LET e == view.chart.rows[n]
                  I == RowsOfMonth(view.merged_df, MonthSpelled(e.mes))
              IN  /\ e.mean.den > 0
                  /\ e.mean.num * Cardinality(I) = e.sum * e.mean.den

\* C7 as amended: the same, with the mean the sum divided by the number of the
\* month's rows that have a valor, and missing when none has.
C7_MeanOverRowsWithValor ==
    (Shown /\ plot_type = PlotTypes[4]) =>
        /\ MonthsAndSums(view.chart, view.merged_df)
        /\ \A n \in Indices(view.chart.rows) :
              LET e == view.chart.rows[n]
                  I == WithValor(view.merged_df,
                                 RowsOfMonth(view.merged_df, MonthSpelled(e.mes)))
              IN  IF I = {} THEN e.mean = NaNMean
                  ELSE /\ e.mean.den > 0
                       /\ e.mean.num * Cardinality(I) = e.sum * e.mean.den

C7_Witness ==
    /\ Shown
    /\ plot_type = PlotTypes[4]
    /\ \E n \in Indices(view.chart.rows) :
          LET I == RowsOfMonth(view.merged_df, MonthSpelled(view.chart.rows[n].mes))
          IN  /\ Cardinality(I) = 2
              /\ Cardinality(WithValor(view.merged_df, I)) = 1
              /\ view.chart.rows[n].sum = 100
              /\ view.chart.rows[n].mean = [num |-> 100, den |-> 1]

\* C8: whatever charts were selected before, the table on the page is the
\* loaded one with its two new columns, the chart is the selected chart of
\* that table, the export is the CSV of that table, and the cache entry is
\* the loaded triple.
C8_ChartLeavesTable ==
    Shown =>
        LET loaded == LoadBody(InputFile)
            df == AddColumns(loaded.merged_df)
        IN  /\ view.merged_df = df
            /\ view.chart = Figure(df, plot_type)
            /\ view.csv # None => view.csv = ToCsv(df)
            /\ cache[default_file] = loaded

C8_Witness ==
    /\ Shown
    /\ plot_type = PlotTypes[6]
    /\ view.csv # None
    /\ Len(view.csv.lines) = 2
    /\ UnmatchedRows(view.merged_df, view.returned.familias_df) # {}

\* C9 as claimed: in a run that saved the uploaded file, the tables on the
\* page are those of the content just uploaded.
C9_UploadShowsUploadedContent ==
    (Ran /\ view.saved) => view.returned = LoadBody(uploaded_file.content)

\* The source a run's tables must come from.
ExpectedSource ==
    IF view.saved THEN UploadPath(uploaded_file.name)
    ELSE IF view.previous_files # {} THEN UploadPath(selected_file)
    ELSE IF default_file.name \in DOMAIN data_dir THEN default_file
    ELSE NoPath

\* C10: the tables of a run are load_excel's result for the uploaded file if
\* it was saved, else for the selected file if uploaded_files/ lists any, else
\* for the default file, else none; when that result is the failure triple
\* the page shows no table, chart or export, whatever a lower source gave.
C10_SourcePriority ==
    Ran =>
        /\ view.source = ExpectedSource
        /\ view.returned = (IF ExpectedSource = NoPath THEN Failed
                            ELSE cache[ExpectedSource])
        /\ (view.phase = "nodata") <=> ~Complete(view.returned)
        /\ view.phase = "nodata" =>
              (view.merged_df = None /\ view.chart = None /\ view.csv = None)

C10_Witness ==
    /\ view.phase = "nodata"
    /\ view.saved
    /\ view.previous_files # {}
    /\ selected_file # uploaded_file.name
    /\ default_file \in DOMAIN cache
    /\ Complete(cache[default_file])
    /\ Complete(cache[UploadPath(selected_file)])
    /\ cache[UploadPath(uploaded_file.name)] = Failed

====
